---------------------------- MODULE Spec2Model ----------------------------
(***************************************************************************)
(* A model of calibration_functions.py: the laser-frequency-comb           *)
(* wavelength calibration of a spectrograph exposure.                      *)
(*                                                                         *)
(* Four state machines share the module, one per group of functions:       *)
(*   - get_true_wavel                    (InitTW, NextTW)                  *)
(*   - get_peak_index_ranges + fit_peaks (InitWin, NextWin)                *)
(*   - get_calib_poly_func + fit_peak_positions (InitPoly, NextPoly)       *)
(*   - fit_all_peaks_in_all_orders       (Init, Next)                      *)
(* A specification runs one machine and leaves the others idle.            *)
(*                                                                         *)
(* Numbers.  Wavelengths are floats in the source.  Here a wavelength is   *)
(* a fixed-point integer in units of 1000 Angstrom, rounded down, so       *)
(* true_wavel(n) = c / (1400 n + 619) with c = 299792458: the source's     *)
(* c / f * 1e10 with f = (1400 n + 619) * 1e7 Hz.  The comb modes the      *)
(* model reaches are therefore the low ones (n below MaxMode), where       *)
(* neighbouring comb lines are far apart; the code has no branch that      *)
(* depends on the wavelength scale.  Uncertainties are integers and a      *)
(* scale factor is given in thousandths (sqrt(3) is 1732).                 *)
(***************************************************************************)
EXTENDS Integers, Naturals, Sequences, FiniteSets, TLC

VARIABLES
    \* ---- get_true_wavel
    wavel_given,        \* data_wavel_given[peak_locs]                (line 146)
    wavel_true,         \* the candidate rows <<wavelength, n>>       (line 153)
    n,                  \* the loop's comb mode counter               (line 154)
    wavel_true_match,   \* the matched rows <<wavelength, n>>         (line 166)
    twpc,               \* "idle" | "gen" | "match" | "done" | "raised"
    \* ---- get_peak_index_ranges and fit_peaks
    peak_locs,          \* the peak pixel indices handed in          (line 26)
    peak_range_size,    \* NaN or Float(size): the window size       (line 26, 39)
    data_len,           \* len(data_spec) = len(data_spec_err)       (line 49)
    peak_index_ranges,  \* the windows <<start, end>>                (line 41)
    peak_fits,          \* one fit result per fitted window          (line 52)
    wpc,                \* "idle" | "build" | "fit" | "done" |
                        \* "build_raised" | "fit_raised"
    \* ---- get_calib_poly_func and fit_peak_positions, one entry per caller
    function,           \* the module global the exec assigns: the degree d of
                        \* calib_poly_func_d, 0 while undefined      (line 188)
    assertions,         \* whether the interpreter runs assert statements
    poly_degree,        \* poly_degree of the caller's call          (line 219)
    fit_func,           \* the evaluator the caller got, 0 for none  (line 226)
    init_values,        \* np.ones(poly_degree + 1)                  (line 227)
    chi2_params,        \* parameters of model_chi2, -1 before it is built
    migrad_started,     \* whether minuit.migrad() was called        (line 237)
    calib,              \* the returned tuple, <<>> before the return
    calls,              \* calls the caller has made
    ppc,                \* the caller's position: "assert" | "exec" | "return" |
                        \* "ones" | "minuit" | "migrad" | "done" | "raised"
    \* ---- fit_all_peaks_in_all_orders; its locals peak_locs,
    \*      peak_index_ranges and peak_fits are the variables above, and
    \*      wavel_given and wavel_true_match hold data_wavel[peak_locs] and
    \*      the array get_true_wavel returned
    data,               \* the exposure: order -> its arrays         (line 255)
    correct_errors,     \* the argument correct_errors               (line 249)
    custom_error_factor,\* the argument: NaN for None, or Float(thousandths)
    minimizer_valid,    \* what the minimizer reports on this exposure
    order,              \* the loop variable                         (line 259)
    data_spec_err,      \* the uncertainties after the scaling, in thousandths
    results,            \* the list of order results                 (line 257)
    invoked,            \* the calls made so far, in call order
    opc                 \* "idle" | "loop" | "peaks" | "ranges" | "fits" |
                        \* "returned" | "raised"

twvars == <<wavel_given, wavel_true, n, wavel_true_match, twpc>>

winvars == <<peak_locs, peak_range_size, data_len, peak_index_ranges,
             peak_fits, wpc>>

polyvars == <<function, assertions, poly_degree, fit_func, init_values,
              chi2_params, migrad_started, calib, calls, ppc>>

orcvars == <<data, correct_errors, custom_error_factor, minimizer_valid, order,
             data_spec_err, results, invoked, opc>>

vars == <<twvars, winvars, polyvars, orcvars>>

(***************************************************************************)
(* Bounds of the model.                                                    *)
(***************************************************************************)
ModeHi == 4         \* nominal wavelengths are drawn around comb modes 1..ModeHi
MaxPeaks == 3       \* longest peak list handed to get_true_wavel on its own
MaxMode == 12       \* cap of the generation loop's counter n
MaxWinPeaks == 3    \* longest peak list handed to get_peak_index_ranges on its own
MaxSize == 12       \* largest window size handed to get_peak_index_ranges
DataLen == 400      \* pixels of one order in the window and fit machine
DegreeBelow == 2    \* the degrees handed to fit_peak_positions are
DegreeHi == 11      \*   POLY_MIN - DegreeBelow .. DegreeHi
MaxCalls == 2       \* calls of fit_peak_positions one caller makes

(***************************************************************************)
(* Program constants.                                                      *)
(***************************************************************************)
C_LIGHT == 299792458    \* c, m/s
V_REP == 1400           \* v_rep = 14e9 Hz, in units of 1e7 Hz
V_OFFSET == 619         \* v_offset = 6.19e9 Hz, in units of 1e7 Hz
MARGIN_NUM == 1         \* the margin 0.001 = MARGIN_NUM / MARGIN_DEN
MARGIN_DEN == 1000
N_SHAPE_PARAMS == 5     \* len(minuit.values): A, mu, sigma, P, C
ORDER_FIRST == 40       \* range(40, 76): the orders 40..75
ORDER_STOP == 76
MIN_PEAKS == 10         \* an order with fewer peaks is skipped
FIND_DISTANCE == 11     \* func_find_peaks(data_spec, 11, 0.15)
POLY_MIN == 1           \* np.arange(1, 10): the degrees 1..9 have a
POLY_STOP == 10         \*   calib_poly_func_<degree>

\* The degrees a caller may ask for: some below, all of, and some above the
\* degrees that have a function.
Degrees == (POLY_MIN - DegreeBelow)..DegreeHi

(***************************************************************************)
(* Helpers.                                                                *)
(***************************************************************************)
Abs(x) == IF x < 0 THEN -x ELSE x

\* A value that is a number or not-a-number: <<v>> or <<>>.
NaN == <<>>
Float(v) == <<v>>
IsNan(v) == v = <<>>
Value(v) == v[1]

Reverse(s) == [i \in 1..Len(s) |-> s[Len(s) + 1 - i]]

Column(rows, c) == [i \in 1..Len(rows) |-> rows[i][c]]

NonDecreasing(s) == \A i \in 1..(Len(s) - 1) : s[i] <= s[i + 1]

(***************************************************************************)
(* get_true_wavel (lines 122-183).                                         *)
(***************************************************************************)
\* true_wavel(n): c / (v_rep n + v_offset) * 1e10, in units of 1000 Angstrom.
true_wavel(m) == C_LIGHT \div (V_REP * m + V_OFFSET)

\* The while condition with its comparison turned round.
LoopGuard_Flipped(last, wavel_given_min) ==
    MARGIN_DEN * last < (MARGIN_DEN - MARGIN_NUM) * wavel_given_min

\* The while condition: wavel_true[-1][0] > wavel_given_min * (1 - 0.001).
LoopGuard(last, wavel_given_min) ==
    MARGIN_DEN * last > (MARGIN_DEN - MARGIN_NUM) * wavel_given_min

\* The cut without its margin: wavel_true[:, 0] < wavel_given_max.
KeepBelowMax_NoMargin(w, wavel_given_max) == w < wavel_given_max

\* The mask of the cut: wavel_true[:, 0] < wavel_given_max * (1 + 0.001).
KeepBelowMax(w, wavel_given_max) ==
    MARGIN_DEN * w < (MARGIN_DEN + MARGIN_NUM) * wavel_given_max

\* wavel_true[wavel_true[:, 0] < ...][::-1]
CutAndReverse(rows, wavel_given_max) ==
    Reverse(SelectSeq(rows, LAMBDA r : KeepBelowMax(r[1], wavel_given_max)))

\* Python's min(vals, key=lambda x: abs(x - lambd_given)): the scan keeps the
\* first element whose key is smallest.
RECURSIVE MinScan(_, _, _, _)
MinScan(vals, lambd_given, i, best) ==
    IF i > Len(vals) THEN best
    ELSE MinScan(vals, lambd_given, i + 1,
                 IF Abs(vals[i] - lambd_given) < Abs(best - lambd_given)
                 THEN vals[i] ELSE best)

\* A scan that keeps the last element whose key is smallest.
RECURSIVE MinScanLast(_, _, _, _)
MinScanLast(vals, lambd_given, i, best) ==
    IF i > Len(vals) THEN best
    ELSE MinScanLast(vals, lambd_given, i + 1,
                     IF Abs(vals[i] - lambd_given) <= Abs(best - lambd_given)
                     THEN vals[i] ELSE best)

PyMin_Last(vals, lambd_given) == MinScanLast(vals, lambd_given, 2, vals[1])

PyMin(vals, lambd_given) == MinScan(vals, lambd_given, 2, vals[1])

\* next(idx for idx, val in np.ndenumerate(vals) if val == min_val)
RECURSIVE FirstIndexOf(_, _, _)
FirstIndexOf(vals, min_val, i) ==
    IF vals[i] = min_val THEN i ELSE FirstIndexOf(vals, min_val, i + 1)

\* One pass of the matching loop: the row appended for lambd_given.
MatchRow(rows, lambd_given) ==
    LET min_val == PyMin(Column(rows, 1), lambd_given)
        min_val_index == FirstIndexOf(Column(rows, 1), min_val, 1)
    IN  <<min_val, rows[min_val_index][2]>>

\* The rows the function starts the generation with.
SeedRows == <<(<<true_wavel(0), 0>>), (<<true_wavel(1), 1>>)>>

\* The generation loop of lines 155-157 run to its end from the rows so far.
RECURSIVE GenRows(_, _, _)
GenRows(rows, m, wavel_given_min) ==
    IF LoopGuard(rows[Len(rows)][1], wavel_given_min) /\ m < MaxMode
    THEN GenRows(Append(rows, <<true_wavel(m + 1), m + 1>>), m + 1,
                 wavel_given_min)
    ELSE rows

\* The candidate rows get_true_wavel matches against (lines 149-162).
CandidateRows(given) ==
    CutAndReverse(GenRows(SeedRows, 1, given[1]), given[Len(given)])

\* get_true_wavel as a whole, for nominal wavelengths that leave candidates.
GetTrueWavel(given) ==
    LET rows == CandidateRows(given)
    IN  [i \in 1..Len(given) |-> MatchRow(rows, given[i])]

\* The nominal wavelengths of the model: around each comb mode 1..ModeHi the
\* line itself, a point inside the 0.1 % margin on either side, a point
\* outside it on either side, and the midpoint to the next line.
WavelsNear(m) ==
    LET w == true_wavel(m)
    IN  { w, w - w \div 2000, w + w \div 2000, w - w \div 500, w + w \div 500,
          (w + true_wavel(m + 1)) \div 2 }

Wavels == UNION { WavelsNear(m) : m \in 1..ModeHi }

\* A wavelength no light has: C10's case of a loop that cannot end.
NonPositiveWavels == {0, -1000}

PeakWavelLists(S) ==
    { s \in UNION { [1..k -> S] : k \in 1..MaxPeaks } : NonDecreasing(s) }

IdleTW ==
    /\ wavel_given = <<>>
    /\ wavel_true = <<>>
    /\ n = 0
    /\ wavel_true_match = <<>>
    /\ twpc = "idle"

IdleWin ==
    /\ peak_locs = <<>>
    /\ peak_range_size = NaN
    /\ data_len = 0
    /\ peak_index_ranges = <<>>
    /\ peak_fits = <<>>
    /\ wpc = "idle"

IdlePoly ==
    /\ function = 0
    /\ assertions = TRUE
    /\ poly_degree = <<>>
    /\ fit_func = <<>>
    /\ init_values = <<>>
    /\ chi2_params = <<>>
    /\ migrad_started = <<>>
    /\ calib = <<>>
    /\ calls = <<>>
    /\ ppc = <<>>

IdleOrc ==
    /\ data = <<>>
    /\ correct_errors = FALSE
    /\ custom_error_factor = NaN
    /\ minimizer_valid = TRUE
    /\ order = 0
    /\ data_spec_err = 0
    /\ results = <<>>
    /\ invoked = <<>>
    /\ opc = "idle"

\* One more mode: n += 1; wavel_true.append([true_wavel(n), n])
GenStep ==
    /\ twpc = "gen"
    /\ LoopGuard(wavel_true[Len(wavel_true)][1], wavel_given[1])
    /\ n < MaxMode
    /\ n' = n + 1
    /\ wavel_true' = Append(wavel_true, <<true_wavel(n + 1), n + 1>>)
    /\ UNCHANGED <<wavel_given, wavel_true_match, twpc>>
    /\ UNCHANGED <<winvars, polyvars, orcvars>>

\* The loop ends; the rows are cut above the largest wavelength and reversed.
CutOff ==
    /\ twpc = "gen"
    /\ ~LoopGuard(wavel_true[Len(wavel_true)][1], wavel_given[1])
    /\ wavel_true' = CutAndReverse(wavel_true, wavel_given[Len(wavel_given)])
    /\ twpc' = "match"
    /\ UNCHANGED <<wavel_given, n, wavel_true_match>>
    /\ UNCHANGED <<winvars, polyvars, orcvars>>

\* One pass of "for lambd_given in wavel_given"; min() of no rows raises.
MatchStep ==
    /\ twpc = "match"
    /\ Len(wavel_true_match) < Len(wavel_given)
    /\ LET lambd_given == wavel_given[Len(wavel_true_match) + 1]
       IN  IF wavel_true = <<>>
           THEN /\ twpc' = "raised"
                /\ UNCHANGED <<wavel_true_match, n>>
           ELSE /\ wavel_true_match' =
                       Append(wavel_true_match, MatchRow(wavel_true, lambd_given))
                \* the loop rebinds n to the matched mode
                /\ n' = MatchRow(wavel_true, lambd_given)[2]
                /\ twpc' = twpc
    /\ UNCHANGED <<wavel_given, wavel_true>>
    /\ UNCHANGED <<winvars, polyvars, orcvars>>

\* return np.asarray(wavel_true_match)
ReturnMatch ==
    /\ twpc = "match"
    /\ Len(wavel_true_match) = Len(wavel_given)
    /\ twpc' = "done"
    /\ UNCHANGED <<wavel_given, wavel_true, n, wavel_true_match>>
    /\ UNCHANGED <<winvars, polyvars, orcvars>>

InitTWOver(lists) ==
    /\ wavel_given \in lists
    /\ wavel_true = SeedRows
    /\ n = 1
    /\ wavel_true_match = <<>>
    /\ twpc = "gen"
    /\ IdleWin /\ IdlePoly /\ IdleOrc

NextTW == GenStep \/ CutOff \/ MatchStep \/ ReturnMatch

\* get_true_wavel on positive, non-decreasing nominal wavelengths.
InitTW == InitTWOver(PeakWavelLists(Wavels))

SpecTW == InitTW /\ [][NextTW]_vars

\* get_true_wavel on any non-decreasing nominal wavelengths, zero and negative
\* ones too, for one or two peaks: the first and the last wavelength decide
\* the loop and the cut.  The interpreter keeps running the function until it
\* ends, which is the fairness of NextTW.
AnyWavels == Wavels \cup NonPositiveWavels

InitTWAny ==
    InitTWOver({ <<a>> : a \in AnyWavels }
               \cup { s \in [1..2 -> AnyWavels] : NonDecreasing(s) })

SpecTWFair == InitTWAny /\ [][NextTW]_vars /\ WF_vars(NextTW)

(***************************************************************************)
(* get_peak_index_ranges (lines 26-46) and fit_peaks (lines 49-119).       *)
(***************************************************************************)
\* num / den rounded down, as numpy's floor division would.
IntFloor(num, den) == num \div den

\* Python's int(num / den), den > 0: the fraction is dropped, towards zero.
IntTrunc(num, den) == IF num >= 0 THEN num \div den ELSE -((-num) \div den)

\* np.sum(np.diff(locs))
RECURSIVE SumDiff(_, _)
SumDiff(locs, i) ==
    IF i >= Len(locs) THEN 0 ELSE (locs[i + 1] - locs[i]) + SumDiff(locs, i + 1)

\* np.mean(np.diff(locs)) is nan for fewer than two peaks, and int(nan) raises.
MeanDiffIsNan(locs) == Len(locs) < 2

\* int(np.mean(np.diff(locs))), two peaks or more.
MeanDiffInt(locs) == IntTrunc(SumDiff(locs, 1), Len(locs) - 1)

\* The loop of lines 42-45: [int(nPeak - size/2), int(nPeak + size/2)].
PeakIndexRanges(locs, size) ==
    [i \in 1..Len(locs) |->
        <<IntTrunc(2 * locs[i] - size, 2), IntTrunc(2 * locs[i] + size, 2)>>]

\* len(np.arange(index_start, index_end))
ArangeLen(index_start, index_end) ==
    IF index_end > index_start THEN index_end - index_start ELSE 0

\* A slice bound as Python resolves it on a sequence of length len.
SliceBound(b, len) ==
    IF b < 0 THEN (IF len + b < 0 THEN 0 ELSE len + b)
    ELSE (IF b > len THEN len ELSE b)

\* len(data_spec[index_start:index_end])
SliceLen(index_start, index_end, len) ==
    LET lo == SliceBound(index_start, len)
        hi == SliceBound(index_end, len)
    IN  IF hi > lo THEN hi - lo ELSE 0

\* numpy broadcasts two one-dimensional arrays when their lengths are equal or
\* one of them is 1; y - y_fit in model_chi raises ValueError otherwise.
Broadcasts(lx, ly) == lx = ly \/ lx = 1 \/ ly = 1

\* Whether the chi-square of a window can be evaluated at all (line 70).
ChiSquareEvaluates(range, len) ==
    Broadcasts(ArangeLen(range[1], range[2]), SliceLen(range[1], range[2], len))

\* The row fit_peaks appends for a window (lines 89-114), as far as the model
\* follows it: the minimizer's own numbers are left out, its validity flag is
\* whatever the minimizer reports.
FitRow(range, converged) ==
    [ index_start |-> range[1],
      index_end   |-> range[2],
      ndof        |-> ArangeLen(range[1], range[2]) - N_SHAPE_PARAMS,
      converged   |-> converged ]

\* Pixels the machine draws its peaks from: next to either end of the order
\* and in the middle of it.
WinPixels == {1, 2, 3, 5, 100, 200, 300, DataLen - 3, DataLen - 2}

StrictlyAscending(s) == \A i \in 1..(Len(s) - 1) : s[i] < s[i + 1]

WinPeakLists ==
    { s \in UNION { [1..k -> WinPixels] : k \in 0..MaxWinPeaks } :
        StrictlyAscending(s) }

\* get_peak_index_ranges, size given or inferred.
BuildRanges ==
    /\ wpc = "build"
    /\ IF IsNan(peak_range_size)
       THEN IF MeanDiffIsNan(peak_locs)
            THEN /\ wpc' = "build_raised"
                 /\ UNCHANGED <<peak_range_size, peak_index_ranges>>
            ELSE /\ peak_range_size' = Float(MeanDiffInt(peak_locs))
                 /\ peak_index_ranges' =
                        PeakIndexRanges(peak_locs, MeanDiffInt(peak_locs))
                 /\ wpc' = "fit"
       ELSE /\ peak_index_ranges' =
                   PeakIndexRanges(peak_locs, Value(peak_range_size))
            /\ wpc' = "fit"
            /\ UNCHANGED peak_range_size
    /\ UNCHANGED <<peak_locs, data_len, peak_fits>>
    /\ UNCHANGED <<twvars, polyvars, orcvars>>

\* One pass of the loop of fit_peaks: the fit of the next window.
FitOne ==
    /\ wpc = "fit"
    /\ Len(peak_fits) < Len(peak_index_ranges)
    /\ LET range == peak_index_ranges[Len(peak_fits) + 1]
       IN  IF ChiSquareEvaluates(range, data_len)
           THEN /\ \E converged \in BOOLEAN :
                      peak_fits' = Append(peak_fits, FitRow(range, converged))
                /\ wpc' = wpc
           ELSE /\ wpc' = "fit_raised"
                /\ UNCHANGED peak_fits
    /\ UNCHANGED <<peak_locs, peak_range_size, data_len, peak_index_ranges>>
    /\ UNCHANGED <<twvars, polyvars, orcvars>>

\* return np.asarray(peak_fits)
FitReturn ==
    /\ wpc = "fit"
    /\ Len(peak_fits) = Len(peak_index_ranges)
    /\ wpc' = "done"
    /\ UNCHANGED <<peak_locs, peak_range_size, data_len, peak_index_ranges,
                   peak_fits>>
    /\ UNCHANGED <<twvars, polyvars, orcvars>>

InitWin ==
    /\ peak_locs \in WinPeakLists
    /\ peak_range_size \in {NaN} \cup { Float(v) : v \in 0..MaxSize }
    /\ data_len = DataLen
    /\ peak_index_ranges = <<>>
    /\ peak_fits = <<>>
    /\ wpc = "build"
    /\ IdleTW /\ IdlePoly /\ IdleOrc

NextWin == BuildRanges \/ FitOne \/ FitReturn

SpecWin == InitWin /\ [][NextWin]_vars


(***************************************************************************)
(* get_calib_poly_func (lines 186-189) and fit_peak_positions (219-246).   *)
(* A caller is a thread inside fit_peak_positions; the interpreter may     *)
(* switch threads between any two statements.                              *)
(***************************************************************************)
\* (degree == np.arange(1, 10)).any()
DegreeInRange(degree) == degree >= POLY_MIN /\ degree < POLY_STOP

\* Whether the module defines calib_poly_func_<degree> (lines 191-216).
HasPolyFunc(degree) == degree \in 1..9

\* The number of coefficients of calib_poly_func_<d>: its parameters but x.
PolyCoefficients(d) == d + 1

Ones(k) == [i \in 1..k |-> 1]

\* np.ones(poly_degree) in place of np.ones(poly_degree + 1).
InitValues_OneShort(degree) == Ones(degree)

\* init_values = np.ones(poly_degree + 1)
InitValues(degree) == Ones(degree + 1)

Callers == DOMAIN ppc

\* assert (degree == np.arange(1, 10)).any(), "Not within 1-9 degrees"
AssertDegree(t) ==
    /\ ppc[t] = "assert"
    /\ ppc' = [ppc EXCEPT ![t] =
                  IF assertions /\ ~DegreeInRange(poly_degree[t])
                  THEN "raised" ELSE "exec"]
    /\ UNCHANGED <<function, assertions, poly_degree, fit_func, init_values,
                   chi2_params, migrad_started, calib, calls>>
    /\ UNCHANGED <<twvars, winvars, orcvars>>

\* exec(f"function = calib_poly_func_{degree}", globals()): NameError when the
\* module has no such function, an assignment to the global otherwise.
ExecAssign(t) ==
    /\ ppc[t] = "exec"
    /\ IF HasPolyFunc(poly_degree[t])
       THEN /\ function' = poly_degree[t]
            /\ ppc' = [ppc EXCEPT ![t] = "return"]
       ELSE /\ ppc' = [ppc EXCEPT ![t] = "raised"]
            /\ UNCHANGED function
    /\ UNCHANGED <<assertions, poly_degree, fit_func, init_values, chi2_params,
                   migrad_started, calib, calls>>
    /\ UNCHANGED <<twvars, winvars, orcvars>>

\* return function, and fit_func = get_calib_poly_func(poly_degree)
ReturnFunction(t) ==
    /\ ppc[t] = "return"
    /\ fit_func' = [fit_func EXCEPT ![t] = function]
    /\ ppc' = [ppc EXCEPT ![t] = "ones"]
    /\ UNCHANGED <<function, assertions, poly_degree, init_values, chi2_params,
                   migrad_started, calib, calls>>
    /\ UNCHANGED <<twvars, winvars, orcvars>>

\* init_values = np.ones(poly_degree + 1); model_chi2 = Chi2Regression(fit_func,
\* x, y, y_err), whose parameters are those of fit_func but x (line 332).
BuildChi2(t) ==
    /\ ppc[t] = "ones"
    /\ init_values' = [init_values EXCEPT ![t] = InitValues(poly_degree[t])]
    /\ chi2_params' = [chi2_params EXCEPT ![t] = PolyCoefficients(fit_func[t])]
    /\ ppc' = [ppc EXCEPT ![t] = "minuit"]
    /\ UNCHANGED <<function, assertions, poly_degree, fit_func, migrad_started,
                   calib, calls>>
    /\ UNCHANGED <<twvars, winvars, orcvars>>

\* minuit = Minuit(model_chi2, *init_values): the minimizer refuses starting
\* values that are not one per parameter.
NewMinuit(t) ==
    /\ ppc[t] = "minuit"
    /\ ppc' = [ppc EXCEPT ![t] =
                  IF Len(init_values[t]) = chi2_params[t]
                  THEN "migrad" ELSE "raised"]
    /\ UNCHANGED <<function, assertions, poly_degree, fit_func, init_values,
                   chi2_params, migrad_started, calib, calls>>
    /\ UNCHANGED <<twvars, winvars, orcvars>>

\* minuit.migrad() and the return of (values, chi2, prob, fit_func, valid);
\* the validity flag is whatever the minimizer reports.
MigradAndReturn(t) ==
    /\ ppc[t] = "migrad"
    /\ migrad_started' = [migrad_started EXCEPT ![t] = TRUE]
    /\ \E valid \in BOOLEAN :
          calib' = [calib EXCEPT ![t] =
                       <<[ values   |-> Len(init_values[t]),
                           fit_func |-> fit_func[t],
                           valid    |-> valid ]>>]
    /\ ppc' = [ppc EXCEPT ![t] = "done"]
    /\ UNCHANGED <<function, assertions, poly_degree, fit_func, init_values,
                   chi2_params, calls>>
    /\ UNCHANGED <<twvars, winvars, orcvars>>

\* The caller calls fit_peak_positions again, with a degree of its choice.
CallAgain(t) ==
    /\ ppc[t] \in {"done", "raised"}
    /\ calls[t] < MaxCalls
    /\ \E degree \in Degrees :
          poly_degree' = [poly_degree EXCEPT ![t] = degree]
    /\ calls' = [calls EXCEPT ![t] = @ + 1]
    /\ fit_func' = [fit_func EXCEPT ![t] = 0]
    /\ init_values' = [init_values EXCEPT ![t] = <<>>]
    /\ chi2_params' = [chi2_params EXCEPT ![t] = -1]
    /\ migrad_started' = [migrad_started EXCEPT ![t] = FALSE]
    /\ calib' = [calib EXCEPT ![t] = <<>>]
    /\ ppc' = [ppc EXCEPT ![t] = "assert"]
    /\ UNCHANGED <<function, assertions>>
    /\ UNCHANGED <<twvars, winvars, orcvars>>

InitPolyOf(callers) ==
    /\ function = 0
    /\ assertions \in BOOLEAN
    /\ poly_degree \in [callers -> Degrees]
    /\ fit_func = [t \in callers |-> 0]
    /\ init_values = [t \in callers |-> <<>>]
    /\ chi2_params = [t \in callers |-> -1]
    /\ migrad_started = [t \in callers |-> FALSE]
    /\ calib = [t \in callers |-> <<>>]
    /\ calls = [t \in callers |-> 1]
    /\ ppc = [t \in callers |-> "assert"]
    /\ IdleTW /\ IdleWin /\ IdleOrc

NextPoly ==
    \/ \E t \in Callers : AssertDegree(t)
    \/ \E t \in Callers : ExecAssign(t)
    \/ \E t \in Callers : ReturnFunction(t)
    \/ \E t \in Callers : BuildChi2(t)
    \/ \E t \in Callers : NewMinuit(t)
    \/ \E t \in Callers : MigradAndReturn(t)
    \/ \E t \in Callers : CallAgain(t)

\* The program as written: one caller, one call after the other.
InitPoly == InitPolyOf({1})

SpecPoly == InitPoly /\ [][NextPoly]_vars

\* Two tasks of a worker pool of threads inside fit_peak_positions at once.
InitPolyConc == InitPolyOf({1, 2})

SpecPolyConc == InitPolyConc /\ [][NextPoly]_vars


(***************************************************************************)
(* fit_all_peaks_in_all_orders (lines 249-291).                            *)
(* func_find_peaks is scipy's detector: the flux of an order is modelled   *)
(* by the peaks the detector finds in it (ascending pixels, FIND_DISTANCE  *)
(* or more apart, never the first or the last pixel).  The minimizer is    *)
(* deterministic, so its validity flag is part of the exposure.            *)
(***************************************************************************)
Orders == ORDER_FIRST..(ORDER_STOP - 1)

\* k peaks, gap pixels apart, the first at pixel first.
PeakComb(k, first, gap) == [i \in 1..k |-> first + (i - 1) * gap]

PeakCounts == {0, MIN_PEAKS - 1, MIN_PEAKS, MIN_PEAKS + 2}

\* What the detector can find in an order: no peak, too few, enough; close to
\* pixel 0, close to the last pixel, or away from both.
PeakProfiles ==
    { c \in { PeakComb(k, first, gap) :
                 k \in PeakCounts, first \in {2, 30}, gap \in {FIND_DISTANCE, 40} } :
        c = <<>> \/ c[Len(c)] <= DataLen - 2 }

\* The arrays of order o: its peaks, its uncertainty (one level per order,
\* different from order to order) and its nominal wavelength per pixel
\* (base + step * pixel, increasing).
OrderArrays(o, peaks) ==
    [ pixels      |-> DataLen,
      peaks       |-> peaks,
      uncertainty |-> o - ORDER_FIRST + 1,
      wavelength  |-> [base |-> 20000 + 100 * (o - ORDER_FIRST), step |-> 20] ]

\* Exposures: the orders below a boundary share one profile, the others another.
Exposures ==
    { [o \in Orders |-> OrderArrays(o, IF o < b THEN lower ELSE upper)] :
        lower \in PeakProfiles, upper \in PeakProfiles,
        b \in {ORDER_FIRST + 1, (ORDER_FIRST + ORDER_STOP) \div 2, ORDER_STOP - 1} }

\* data['wavelength'][order][peak_locs]
WavelAt(arrays, locs) ==
    [i \in 1..Len(locs) |-> arrays.wavelength.base + arrays.wavelength.step * locs[i]]

\* func_find_peaks(data_spec, 11, 0.15)[0]
FindPeaks(arrays) == arrays.peaks

\* A scaling that uses the factor whenever one is given.
ScaleErr_FactorAlways(err, correct, factor) ==
    IF ~IsNan(factor) THEN err * Value(factor)
    ELSE IF correct THEN err * 1732 ELSE err * 1000

\* Lines 264-268, in thousandths: err * factor, err * sqrt(3) or err.
ScaleErr(err, correct, factor) ==
    IF correct
    THEN (IF ~IsNan(factor) THEN err * Value(factor) ELSE err * 1732)
    ELSE err * 1000

\* [order, [[np.nan]], [[np.nan]], [np.nan]]
DegenerateResult(o) ==
    [ order |-> o, peak_fits |-> <<(<<NaN>>)>>, wavel_true |-> <<(<<NaN>>)>>,
      wavel_given |-> <<NaN>> ]

Call(fn, o, err) == [fn |-> fn, order |-> o, err |-> err]

\* Lines 259-272: the arrays of the order, the scaling, the detector.
LoadOrder ==
    /\ opc = "loop"
    /\ order < ORDER_STOP
    /\ data_spec_err' =
          ScaleErr(data[order].uncertainty, correct_errors, custom_error_factor)
    /\ peak_locs' = FindPeaks(data[order])
    /\ invoked' = Append(invoked, Call("func_find_peaks", order, 0))
    /\ opc' = "peaks"
    /\ UNCHANGED <<data, correct_errors, custom_error_factor, minimizer_valid,
                   order, results>>
    /\ UNCHANGED <<peak_range_size, data_len, peak_index_ranges, peak_fits, wpc>>
    /\ UNCHANGED <<twvars, polyvars>>

\* Lines 275-277: fewer than 10 peaks, the NaN result and the next order.
SkipOrder ==
    /\ opc = "peaks"
    /\ Len(peak_locs) < MIN_PEAKS
    /\ results' = Append(results, DegenerateResult(order))
    /\ order' = order + 1
    /\ opc' = "loop"
    /\ UNCHANGED <<data, correct_errors, custom_error_factor, minimizer_valid,
                   data_spec_err, invoked>>
    /\ UNCHANGED <<winvars, twvars, polyvars>>

\* Line 280: peak_index_ranges = get_peak_index_ranges(peak_locs)
CallPeakIndexRanges ==
    /\ opc = "peaks"
    /\ Len(peak_locs) >= MIN_PEAKS
    /\ peak_index_ranges' = PeakIndexRanges(peak_locs, MeanDiffInt(peak_locs))
    /\ invoked' = Append(invoked, Call("get_peak_index_ranges", order, 0))
    /\ opc' = "ranges"
    /\ UNCHANGED <<data, correct_errors, custom_error_factor, minimizer_valid,
                   order, data_spec_err, results>>
    /\ UNCHANGED <<peak_locs, peak_range_size, data_len, peak_fits, wpc>>
    /\ UNCHANGED <<twvars, polyvars>>

\* Line 283: peak_fits = fit_peaks(data_spec, data_spec_err, peak_index_ranges);
\* an error raised in fit_peaks ends fit_all_peaks_in_all_orders.
CallFitPeaks ==
    /\ opc = "ranges"
    /\ invoked' = Append(invoked, Call("fit_peaks", order, data_spec_err))
    /\ IF \A i \in 1..Len(peak_index_ranges) :
             ChiSquareEvaluates(peak_index_ranges[i], data[order].pixels)
       THEN /\ peak_fits' = [i \in 1..Len(peak_index_ranges) |->
                                FitRow(peak_index_ranges[i], minimizer_valid)]
            /\ opc' = "fits"
       ELSE /\ opc' = "raised"
            /\ UNCHANGED peak_fits
    /\ UNCHANGED <<data, correct_errors, custom_error_factor, minimizer_valid,
                   order, data_spec_err, results>>
    /\ UNCHANGED <<peak_locs, peak_range_size, data_len, peak_index_ranges, wpc>>
    /\ UNCHANGED <<twvars, polyvars>>

\* Lines 286-288: wavel_true = get_true_wavel(data_wavel, peak_locs) and the
\* append of the order's result.
CallTrueWavel ==
    /\ opc = "fits"
    /\ wavel_given' = WavelAt(data[order], peak_locs)
    /\ wavel_true_match' = GetTrueWavel(WavelAt(data[order], peak_locs))
    /\ invoked' = Append(invoked, Call("get_true_wavel", order, 0))
    /\ results' = Append(results,
          [ order       |-> order,
            peak_fits   |-> peak_fits,
            wavel_true  |-> GetTrueWavel(WavelAt(data[order], peak_locs)),
            wavel_given |-> WavelAt(data[order], peak_locs) ])
    /\ order' = order + 1
    /\ opc' = "loop"
    /\ UNCHANGED <<data, correct_errors, custom_error_factor, minimizer_valid,
                   data_spec_err>>
    /\ UNCHANGED <<wavel_true, n, twpc>>
    /\ UNCHANGED <<winvars, polyvars>>

\* Lines 290-291: return results
ReturnResults ==
    /\ opc = "loop"
    /\ order = ORDER_STOP
    /\ opc' = "returned"
    /\ UNCHANGED <<data, correct_errors, custom_error_factor, minimizer_valid,
                   order, data_spec_err, results, invoked>>
    /\ UNCHANGED <<winvars, twvars, polyvars>>

Init ==
    /\ data \in Exposures
    /\ correct_errors \in BOOLEAN
    /\ custom_error_factor \in {NaN, Float(2000)}
    /\ minimizer_valid \in BOOLEAN
    /\ order = ORDER_FIRST
    /\ data_spec_err = 0
    /\ results = <<>>
    /\ invoked = <<>>
    /\ opc = "loop"
    /\ IdleTW /\ IdleWin /\ IdlePoly

Next ==
    \/ LoadOrder
    \/ SkipOrder
    \/ CallPeakIndexRanges
    \/ CallFitPeaks
    \/ CallTrueWavel
    \/ ReturnResults

Spec == Init /\ [][Next]_vars


(***************************************************************************)
(* Properties of fit_all_peaks_in_all_orders.                              *)
(***************************************************************************)
\* The functions called for order o, in call order.
CallsOf(o) ==
    LET ofOrder == SelectSeq(invoked, LAMBDA c : c.order = o)
    IN  [i \in 1..Len(ofOrder) |-> ofOrder[i].fn]

\* The loop has finished with order o: it went on to the next one, or an error
\* ended the call in it.
OrderEnded(o) == o < order \/ (o = order /\ opc = "raised")

HasResult(o) ==
    /\ Len(results) >= o - ORDER_FIRST + 1
    /\ results[o - ORDER_FIRST + 1].order = o

ResultOf(o) == results[o - ORDER_FIRST + 1]

IsDegenerate(r) ==
    /\ Len(r.wavel_given) = 1 /\ IsNan(r.wavel_given[1])
    /\ Len(r.peak_fits) = 1 /\ r.peak_fits[1] = <<NaN>>
    /\ Len(r.wavel_true) = 1 /\ r.wavel_true[1] = <<NaN>>

\* The result of an order as a function of that order's arrays alone.
ExpectedResult(o) ==
    LET locs == data[o].peaks
        ranges == PeakIndexRanges(locs, MeanDiffInt(locs))
    IN  IF Len(locs) < MIN_PEAKS
        THEN DegenerateResult(o)
        ELSE [ order       |-> o,
               peak_fits   |-> [i \in 1..Len(locs) |->
                                   FitRow(ranges[i], minimizer_valid)],
               wavel_true  |-> GetTrueWavel(WavelAt(data[o], locs)),
               wavel_given |-> WavelAt(data[o], locs) ]

\* C1: an order with fewer than 10 peaks gets the NaN result without a call of
\* get_peak_index_ranges, fit_peaks or get_true_wavel, and the loop goes on; an
\* order with 10 peaks or more has the three called in that order and its
\* assembled result appended.
C1_SkipOrFit ==
    \A o \in Orders :
        OrderEnded(o) =>
            IF Len(data[o].peaks) < MIN_PEAKS
            THEN /\ CallsOf(o) = <<"func_find_peaks">>
                 /\ HasResult(o)
                 /\ IsDegenerate(ResultOf(o))
            ELSE /\ CallsOf(o) = <<"func_find_peaks", "get_peak_index_ranges",
                                   "fit_peaks", "get_true_wavel">>
                 /\ HasResult(o)
                 /\ Len(ResultOf(o).peak_fits) = Len(data[o].peaks)
                 /\ Len(ResultOf(o).wavel_true) = Len(data[o].peaks)
                 /\ Len(ResultOf(o).wavel_given) = Len(data[o].peaks)

\* C8: the call ends by returning one result per order 40..75, 36 of them, in
\* ascending order, each with its order index, whichever orders are
\* degenerate; the result of an order is a function of that order's arrays.
C8_OneResultPerOrder ==
    /\ opc \in {"returned", "raised"} =>
          /\ opc = "returned"
          /\ Len(results) = ORDER_STOP - ORDER_FIRST
    /\ \A i \in 1..Len(results) :
          /\ results[i].order = ORDER_FIRST + i - 1
          /\ results[i] = ExpectedResult(ORDER_FIRST + i - 1)

\* The scaling of the uncertainties, in thousandths, as the claim words it:
\* the factor whenever one is given.
FactorAsClaimed ==
    IF ~IsNan(custom_error_factor) THEN Value(custom_error_factor)
    ELSE IF correct_errors THEN 1732 ELSE 1000

\* The same with the factor used only when the scaling is requested.
FactorAsAmended ==
    IF ~correct_errors THEN 1000
    ELSE IF ~IsNan(custom_error_factor) THEN Value(custom_error_factor) ELSE 1732

\* What the scaling must leave alone: the exposure, the detected peaks and the
\* decision taken on them, the windows and the matched wavelengths are those
\* of the unscaled arrays.  The result appended last is compared in full; the
\* results before it are compared when they are appended and, by
\* ResultsOnlyGrow, never change afterwards.
ScalingFrame ==
    /\ DOMAIN data = Orders
    /\ \A o \in Orders :
          /\ data[o].peaks \in PeakProfiles
          /\ data[o] = OrderArrays(o, data[o].peaks)
    /\ opc \in {"peaks", "ranges", "fits"} => peak_locs = data[order].peaks
    /\ opc \in {"ranges", "fits"} =>
          /\ Len(data[order].peaks) >= MIN_PEAKS
          /\ peak_index_ranges =
                PeakIndexRanges(data[order].peaks, MeanDiffInt(data[order].peaks))
    /\ \A i \in 1..Len(results) :
          IsDegenerate(results[i])
             <=> Len(data[ORDER_FIRST + i - 1].peaks) < MIN_PEAKS
    /\ (results # <<>> /\ ~IsDegenerate(results[Len(results)])) =>
          LET o == ORDER_FIRST + Len(results) - 1
              last == results[Len(results)]
              ranges == PeakIndexRanges(data[o].peaks, MeanDiffInt(data[o].peaks))
          IN  /\ last.wavel_given = WavelAt(data[o], data[o].peaks)
              /\ last.wavel_true = GetTrueWavel(WavelAt(data[o], data[o].peaks))
              /\ Len(last.peak_fits) = Len(ranges)
              /\ \A k \in 1..Len(last.peak_fits) :
                    /\ last.peak_fits[k].index_start = ranges[k][1]
                    /\ last.peak_fits[k].index_end = ranges[k][2]

ResultsOnlyGrow ==
    /\ Len(results') >= Len(results)
    /\ \A i \in 1..Len(results) : results'[i] = results[i]
    /\ data' = data

\* The uncertainties handed to fit_peaks are the order's own, times factor.
HandedTimes(factor) ==
    /\ opc \in {"peaks", "ranges", "fits"} =>
          data_spec_err = data[order].uncertainty * factor
    /\ \A i \in 1..Len(invoked) :
          invoked[i].fn = "fit_peaks" =>
             invoked[i].err = data[invoked[i].order].uncertainty * factor

\* C9 as stated: the uncertainties handed to fit_peaks are the input times the
\* caller's factor when one is given, times sqrt(3) when the scaling is
\* requested without a factor, and unchanged when no scaling is requested;
\* once per order; nothing else changes.
C9_FactorWhenGiven ==
    [](HandedTimes(FactorAsClaimed) /\ ScalingFrame) /\ [][ResultsOnlyGrow]_vars

\* C9 as amended: the caller's factor is used only when the scaling is
\* requested (correct_errors); without the request the uncertainties are
\* unchanged, a factor given or not.
C9_ScalingOnly ==
    [](HandedTimes(FactorAsAmended) /\ ScalingFrame) /\ [][ResultsOnlyGrow]_vars

\* C9's case: a returned call that scaled by the caller's factor and handed
\* the scaled uncertainties of two orders or more to fit_peaks.
C9_Witness ==
    /\ opc = "returned"
    /\ correct_errors
    /\ ~IsNan(custom_error_factor)
    /\ \E i, j \in 1..Len(invoked) :
          /\ i < j
          /\ invoked[i].fn = "fit_peaks"
          /\ invoked[j].fn = "fit_peaks"
          /\ invoked[j].err = data[invoked[j].order].uncertainty * 2000


(***************************************************************************)
(* Properties of get_calib_poly_func and fit_peak_positions.               *)
(***************************************************************************)
InsideGetCalibPolyFunc(t) == ppc[t] \in {"assert", "exec", "return"}

\* C7: a degree outside 1..9 makes fit_peak_positions fail inside
\* get_calib_poly_func, before the chi-square objective is built and before a
\* minimization is started, and no calibration is returned; a degree d in 1..9
\* raises no error and the fit runs over d + 1 coefficients that all start at 1.
C7_DegreeCheck ==
    \A t \in Callers :
        /\ poly_degree[t] \notin 1..9 =>
              /\ InsideGetCalibPolyFunc(t) \/ ppc[t] = "raised"
              /\ ppc[t] # "return"
              /\ fit_func[t] = 0
              /\ chi2_params[t] = -1
              /\ ~migrad_started[t]
              /\ calib[t] = <<>>
        /\ poly_degree[t] \in 1..9 =>
              /\ ppc[t] # "raised"
              /\ ppc[t] \in {"migrad", "done"} =>
                    /\ chi2_params[t] = poly_degree[t] + 1
                    /\ Len(init_values[t]) = poly_degree[t] + 1
                    /\ \A i \in 1..Len(init_values[t]) : init_values[t][i] = 1
              /\ ppc[t] = "done" =>
                    /\ migrad_started[t]
                    /\ calib[t] # <<>>
                    /\ calib[t][1].values = poly_degree[t] + 1

\* C7's case: a second call with degree 10 has failed after a first call with
\* degree 9 returned its calibration.
C7_Witness ==
    /\ Callers = {1}
    /\ function = 9
    /\ calls[1] = 2
    /\ poly_degree[1] = 10
    /\ ppc[1] = "raised"

\* C5: callers that run at once share no mutable state: whatever the
\* interleaving, each caller gets the evaluator of its own degree and its call
\* ends as it does when it runs alone.
C5_OwnEvaluator ==
    \A t \in Callers :
        /\ ppc[t] \in {"ones", "minuit", "migrad", "done"} =>
              fit_func[t] = poly_degree[t]
        /\ poly_degree[t] \in 1..9 => ppc[t] # "raised"
        /\ ppc[t] = "done" =>
              /\ calib[t][1].fit_func = poly_degree[t]
              /\ calib[t][1].values = poly_degree[t] + 1


(***************************************************************************)
(* Properties of get_peak_index_ranges and fit_peaks.                      *)
(***************************************************************************)
\* a is half2 / 2 with its fraction dropped towards zero.
IsTruncOfHalf(a, half2) ==
    /\ half2 >= 0 => (a >= 0 /\ 2 * a <= half2 /\ half2 < 2 * a + 2)
    /\ half2 < 0 => (a <= 0 /\ 2 * a >= half2 /\ half2 > 2 * a - 2)

WindowsBuilt == wpc \in {"fit", "done", "fit_raised"}

\* C6: get_peak_index_ranges returns one (start, end) pair per peak, in the
\* order of the peaks, start = trunc(peak - size/2) and end = trunc(peak +
\* size/2), each truncated towards zero on its own; a size left out is, for
\* two peaks or more, the truncated mean of the differences of consecutive
\* peaks, and the peaks 100, 200, 300 get the windows [50,150], [150,250],
\* [250,350].
C6_Windows ==
    /\ [](WindowsBuilt =>
            /\ ~IsNan(peak_range_size)
            /\ Len(peak_index_ranges) = Len(peak_locs)
            /\ \A i \in 1..Len(peak_locs) :
                  /\ IsTruncOfHalf(peak_index_ranges[i][1],
                                   2 * peak_locs[i] - Value(peak_range_size))
                  /\ IsTruncOfHalf(peak_index_ranges[i][2],
                                   2 * peak_locs[i] + Value(peak_range_size)))
    /\ [][(wpc = "build" /\ IsNan(peak_range_size) /\ Len(peak_locs) >= 2) =>
            /\ wpc' = "fit"
            /\ LET size == Value(peak_range_size')
                   span == peak_locs[Len(peak_locs)] - peak_locs[1]
                   gaps == Len(peak_locs) - 1
               IN  /\ size * gaps <= span
                   /\ span < (size + 1) * gaps
            /\ peak_locs = <<100, 200, 300>> =>
                  peak_index_ranges' = <<(<<50, 150>>), (<<150, 250>>), (<<250, 350>>)>>
         ]_vars

\* C6's case: the windows of the peaks 100, 200, 300 with the size left out.
C6_Witness ==
    /\ wpc = "fit"
    /\ peak_locs = <<100, 200, 300>>
    /\ peak_range_size = Float(100)
    /\ peak_index_ranges = <<(<<50, 150>>), (<<150, 250>>), (<<250, 350>>)>>

\* C4: fit_peaks never raises because of one window: it returns one fit result
\* per window, in the order of the windows, and a window that is empty, starts
\* before pixel 0 or ends past the arrays shows up only as a result with
\* converged = false.
C4_NeverRaises ==
    /\ wpc # "fit_raised"
    /\ wpc = "done" =>
         /\ Len(peak_fits) = Len(peak_index_ranges)
         /\ \A i \in 1..Len(peak_fits) :
               /\ peak_fits[i].index_start = peak_index_ranges[i][1]
               /\ peak_fits[i].index_end = peak_index_ranges[i][2]
               /\ ~ChiSquareEvaluates(peak_index_ranges[i], data_len)
                     => ~peak_fits[i].converged


(***************************************************************************)
(* Properties of get_true_wavel.                                           *)
(***************************************************************************)
wavel_given_min == wavel_given[1]
wavel_given_max == wavel_given[Len(wavel_given)]

AboveLowMargin(w) == MARGIN_DEN * w > (MARGIN_DEN - MARGIN_NUM) * wavel_given_min
BelowHighMargin(w) == MARGIN_DEN * w < (MARGIN_DEN + MARGIN_NUM) * wavel_given_max

\* C2: get_true_wavel returns one (wavelength, n) row per peak, in the order of
\* the peaks; each row is the candidate nearest to the peak's nominal
\* wavelength, the first of the candidate list when two are equally near, with
\* that candidate's own n; a nominal wavelength equal to a candidate is matched
\* to itself.
C2_NearestMatch ==
    /\ twpc \in {"match", "done"} => Len(wavel_true_match) <= Len(wavel_given)
    /\ twpc = "done" => Len(wavel_true_match) = Len(wavel_given)
    /\ twpc \in {"match", "done"} =>
         \A k \in 1..Len(wavel_true_match) :
            LET row == wavel_true_match[k]
                w == wavel_given[k]
            IN  /\ \E i \in 1..Len(wavel_true) :
                      /\ wavel_true[i] = row
                      /\ \A j \in 1..Len(wavel_true) :
                            Abs(wavel_true[j][1] - w) >= Abs(row[1] - w)
                      /\ \A j \in 1..(i - 1) :
                            Abs(wavel_true[j][1] - w) > Abs(row[1] - w)
                /\ (\E i \in 1..Len(wavel_true) : wavel_true[i][1] = w)
                      => row[1] = w

\* C2's case: a finished call with three peaks, one of them midway between two
\* candidates and one of them on a candidate.
C2_Witness ==
    /\ twpc = "done"
    /\ Len(wavel_true_match) = 3
    /\ \E k \in 1..3 : \E j \in 1..Len(wavel_true) :
          /\ wavel_true[j][1] # wavel_true_match[k][1]
          /\ Abs(wavel_true[j][1] - wavel_given[k])
               = Abs(wavel_true_match[k][1] - wavel_given[k])
    /\ \E k \in 1..3 : wavel_true_match[k][1] = wavel_given[k]

\* C3: the candidates are generated for n = 0, 1, 2, ... until the wavelength
\* is no longer above 0.999 times the smallest nominal wavelength; the list
\* matched against holds no wavelength at or above 1.001 times the largest
\* nominal wavelength, is strictly ascending in wavelength with n falling by
\* one from row to row, and holds every comb mode between the two margins
\* (and, as its first row, the one mode at or below the lower margin).
C3_CandidateList ==
    /\ twpc = "gen" =>
         /\ Len(wavel_true) = n + 1
         /\ \A i \in 1..Len(wavel_true) :
               wavel_true[i] = <<true_wavel(i - 1), i - 1>>
         /\ \A i \in 1..(Len(wavel_true) - 1) : AboveLowMargin(wavel_true[i][1])
    /\ twpc \in {"match", "done"} =>
         /\ \A i \in 1..Len(wavel_true) :
               /\ wavel_true[i][2] \in Nat
               /\ wavel_true[i][1] = true_wavel(wavel_true[i][2])
               /\ BelowHighMargin(wavel_true[i][1])
               /\ i > 1 => AboveLowMargin(wavel_true[i][1])
         /\ \A i \in 1..(Len(wavel_true) - 1) :
               /\ wavel_true[i][1] < wavel_true[i + 1][1]
               /\ wavel_true[i][2] = wavel_true[i + 1][2] + 1
         /\ \A m \in 0..MaxMode :
               (AboveLowMargin(true_wavel(m)) /\ BelowHighMargin(true_wavel(m)))
                  => \E i \in 1..Len(wavel_true) : wavel_true[i][2] = m
         /\ wavel_true # <<>>
         /\ ~AboveLowMargin(wavel_true[1][1])

\* C3's case: the cut has dropped rows, and the list kept a comb line that lies
\* above the largest nominal wavelength but inside the margin.
C3_Witness ==
    /\ twpc = "done"
    /\ Len(wavel_true) >= 3
    /\ wavel_true[Len(wavel_true)][2] > 0
    /\ wavel_true[Len(wavel_true)][1] > wavel_given_max
    /\ wavel_true[1][1] < wavel_given_min

\* C10: on positive, non-decreasing nominal wavelengths the generation loop
\* ends, the candidate list left by the cut is not empty and every peak gets
\* its match; when the smallest nominal wavelength is zero or negative the
\* loop condition stays true and the loop never ends.
C10_Termination ==
    /\ [](wavel_given_min > 0 /\ twpc \in {"match", "done"} => wavel_true # <<>>)
    /\ [](wavel_given_min > 0 => twpc # "raised")
    /\ (wavel_given_min > 0) ~>
          (twpc = "done" /\ Len(wavel_true_match) = Len(wavel_given))
    /\ [](wavel_given_min <= 0 =>
             /\ twpc = "gen"
             /\ MARGIN_DEN * wavel_true[Len(wavel_true)][1]
                  > (MARGIN_DEN - MARGIN_NUM) * wavel_given_min)

\* C10's case: a call on positive wavelengths that has ended after the loop
\* generated modes beyond the two it starts with.
C10_Witness ==
    /\ twpc = "done"
    /\ wavel_given_min > 0
    /\ Len(wavel_true) >= 2
    /\ wavel_true[1][2] > 2

=============================================================================
